---- MODULE Spec2Model ----
(***************************************************************************)
(* Model of custom_components/philips_airpurifier/fan.py: the platform     *)
(* setup, the CoAP fan entity (PhilipsGenericCoAPFan / PhilipsAC4236),     *)
(* its observe task and its control commands.                              *)
(*                                                                         *)
(* Coroutines are cut at their awaits: everything between two awaits runs  *)
(* without interleaving on the event loop and is one step here.            *)
(***************************************************************************)
EXTENDS Integers, Sequences, FiniteSets, TLC

\* ---------------------------------------------------------------- bounds
\* number of notifications the observe stream delivers in a run
MaxDelivered == 3

\* ------------------------------------------------------- python values
\* Python's None, True and False (kept as strings so that an Optional[bool]
\* and an Optional[str] field can be compared with None)
None == "None"
PyTrue == "True"
PyFalse == "False"
\* an attribute that was never assigned: reading it raises AttributeError
Unset == [unset |-> TRUE]
\* the same for the attributes that hold a task or a client
Unassigned == "Unassigned"
AttributeError == "AttributeError"
PlatformNotReady == "PlatformNotReady"

\* -------------------------------------------------- imported constants
\* (from .const and homeassistant.components.fan; only their being distinct
\* strings matters to fan.py)
PHILIPS_DEVICE_ID == "DeviceId"
PHILIPS_POWER == "pwr"
PHILIPS_MODE == "mode"
PHILIPS_SPEED == "om"
MODEL_AC4236 == "AC4236"
SPEED_OFF == "off"
SPEED_1 == "speed_1"
SPEED_2 == "speed_2"
SPEED_MODE_AUTO == "auto"
SPEED_MODE_SLEEP == "sleep"
SPEED_MODE_TURBO == "turbo"

SPEED_LIST ==
    <<SPEED_OFF, SPEED_1, SPEED_2, SPEED_MODE_AUTO, SPEED_MODE_SLEEP, SPEED_MODE_TURBO>>

SpeedSet == {SPEED_LIST[i] : i \in DOMAIN SPEED_LIST}

\* a speed string that is not in SPEED_LIST (the speed argument is a plain str)
OtherSpeed == "high"

SpeedArgs == SpeedSet \cup {OtherSpeed}

\* ------------------------------------------------------ status snapshots
\* A status is a dict; a key may be missing.
S1 == (PHILIPS_DEVICE_ID :> "d1" @@ PHILIPS_POWER :> "1" @@ PHILIPS_MODE :> "M" @@ PHILIPS_SPEED :> "2")
S2 == (PHILIPS_DEVICE_ID :> "d1" @@ PHILIPS_POWER :> "0" @@ PHILIPS_MODE :> "M" @@ PHILIPS_SPEED :> "1")
S3 == (PHILIPS_DEVICE_ID :> "d2" @@ PHILIPS_POWER :> "1" @@ PHILIPS_MODE :> "AG")
S4 == (PHILIPS_POWER :> "1" @@ PHILIPS_MODE :> "T")
S5 == (PHILIPS_DEVICE_ID :> "d1" @@ PHILIPS_MODE :> "S")

Snapshots == {S1, S2, S3, S4, S5}

\* dict.get(key): None when the key is missing
Get(d, key) == IF key \in DOMAIN d THEN d[key] ELSE None

\* outcomes of awaiting CoAPClient.set_control_value
ClientOutcomes == {"ack", "CommandTimeout", "CommandRejected"}

\* the exception CoAPClient.create raises when it fails
ConnectError == "ConnectError"

VARIABLES
    setup_pc,        \* position of async_setup_platform
    raised,          \* exception that left async_setup_platform, or None
    status,          \* init()'s local: the status fetched by get_status()
    _client,
    _model,
    _available,
    _state,
    _unique_id,
    _device_state,
    _device_status,
    _observer_task,
    delivered,       \* number of snapshots the observe stream has delivered
    last_delivered,  \* the latest of them
    removed,         \* async_will_remove_from_hass has been called
    call,            \* the command call in progress
    cmd_pc,          \* its position
    sent,            \* mutations it has handed to the client, in order
    acked,           \* how many of them the client has acknowledged
    on_at_call,      \* is_on when the call was made
    exc,             \* exception the call raised, or None
    prev_outcome     \* how the previous call ended

entity == <<_client, _model, _available, _state, _unique_id, _device_state,
            _device_status, _observer_task>>
setup == <<setup_pc, raised, status>>
stream == <<delivered, last_delivered>>
command == <<call, cmd_pc, sent, acked, on_at_call, exc, prev_outcome>>
vars == <<setup, entity, stream, removed, command>>

NoCall == [op |-> None, speed |-> None]

\* ------------------------------------------------------------ properties
is_on == _state

unique_id == _unique_id

available == _available

speed ==
    IF _device_status = Unset THEN AttributeError
    ELSE LET power == Get(_device_status, PHILIPS_POWER)
             mode == Get(_device_status, PHILIPS_MODE)
             spd == Get(_device_status, PHILIPS_SPEED)
         IN  IF power = "0" THEN SPEED_OFF
             ELSE IF mode = "M" /\ spd = "1" THEN SPEED_1
             ELSE IF mode = "M" /\ spd = "2" THEN SPEED_2
             ELSE IF mode = "AG" THEN SPEED_MODE_AUTO
             ELSE IF mode = "S" THEN SPEED_MODE_SLEEP
             ELSE IF mode = "T" THEN SPEED_MODE_TURBO
             ELSE None

\* ------------------------------------------------------------------ Init
\* async_setup_platform is about to construct the device:
\* PhilipsGenericFan.__init__ and PhilipsGenericCoAPFan.__init__
Init ==
    /\ setup_pc = "start"
    /\ raised = None
    /\ status = Unset
    /\ _client = Unassigned
    /\ _model = MODEL_AC4236
    /\ _available = FALSE
    /\ _state = None
    /\ _unique_id = None
    /\ _device_state = <<>>
    /\ _device_status = Unset
    /\ _observer_task = Unassigned
    /\ delivered = 0
    /\ last_delivered = Unset
    /\ removed = FALSE
    /\ call = NoCall
    /\ cmd_pc = "idle"
    /\ sent = <<>>
    /\ acked = 0
    /\ on_at_call = None
    /\ exc = None
    /\ prev_outcome = None

\* ----------------------------------------------------------------- setup
\* init(): self._client = await CoAPClient.create(self._host), outside the try
init_create ==
    /\ setup_pc = "start"
    /\ \E ok \in BOOLEAN :
          IF ok
          THEN /\ _client' = "client"
               /\ _observer_task' = None
               /\ setup_pc' = "created"
               /\ raised' = raised
          ELSE /\ setup_pc' = "failed"
               /\ raised' = ConnectError
               /\ UNCHANGED <<_client, _observer_task>>
    /\ UNCHANGED <<status, _model, _available, _state, _unique_id, _device_state,
                   _device_status, stream, removed, command>>

\* init() whose except branch logs the error and returns
init_except_swallowed ==
    /\ setup_pc' = "inited"
    /\ raised' = raised
    /\ UNCHANGED <<status, _unique_id>>

\* the except branch of init()
init_except ==
    /\ setup_pc' = "failed"
    /\ raised' = PlatformNotReady
    /\ UNCHANGED <<status, _unique_id>>

\* init(): the try block around get_status()
init_get_status ==
    /\ setup_pc = "created"
    /\ \E r \in Snapshots \cup {[error |-> "FetchError"]} :
          IF r \in Snapshots /\ PHILIPS_DEVICE_ID \in DOMAIN r
          THEN /\ status' = r
               /\ _unique_id' = _model \o "-" \o r[PHILIPS_DEVICE_ID]
               /\ setup_pc' = "inited"
               /\ raised' = raised
          ELSE init_except
    /\ UNCHANGED <<_client, _model, _available, _state, _device_state,
                   _device_status, _observer_task, stream, removed, command>>

\* async_setup_platform after `await device.init()` returned
async_add_entities ==
    /\ setup_pc = "inited"
    /\ setup_pc' = "added"
    /\ UNCHANGED <<raised, status, entity, stream, removed, command>>

async_added_to_hass ==
    /\ setup_pc = "added"
    /\ _observer_task = None
    /\ _observer_task' = "running"
    /\ UNCHANGED <<setup, _client, _model, _available, _state, _unique_id,
                   _device_state, _device_status, stream, removed, command>>

\* --------------------------------------------------------------- observe
\* _update_status that merges the snapshot into the cached dict
_update_status_merged(s) ==
    /\ _available' = TRUE
    /\ _state' = IF Get(s, PHILIPS_POWER) = "1" THEN PyTrue ELSE PyFalse
    /\ _device_status' = IF _device_status = Unset THEN s ELSE s @@ _device_status
    /\ UNCHANGED <<_unique_id>>

\* _update_status that derives unique_id again from every snapshot
_update_status_reidentified(s) ==
    /\ _available' = TRUE
    /\ _state' = IF Get(s, PHILIPS_POWER) = "1" THEN PyTrue ELSE PyFalse
    /\ _device_status' = s
    /\ _unique_id' = IF PHILIPS_DEVICE_ID \in DOMAIN s
                     THEN _model \o "-" \o s[PHILIPS_DEVICE_ID]
                     ELSE _unique_id

_update_status(s) ==
    /\ _available' = TRUE
    /\ _state' = IF Get(s, PHILIPS_POWER) = "1" THEN PyTrue ELSE PyFalse
    /\ _device_status' = s
    /\ UNCHANGED <<_unique_id>>

\* one iteration of `async for status in self._client.observe_status()`
_observe_status ==
    /\ _observer_task = "running"
    /\ delivered < MaxDelivered
    /\ \E s \in Snapshots :
          /\ _update_status(s)
          /\ delivered' = delivered + 1
          /\ last_delivered' = s
    /\ UNCHANGED <<setup, _client, _model, _device_state, _observer_task,
                   removed, command>>

\* an observe task that marks the entity unavailable when the stream ends
_observe_status_ends_unavailable ==
    /\ _observer_task = "running"
    /\ _observer_task' = "done"
    /\ _available' = FALSE
    /\ UNCHANGED <<setup, _client, _model, _state, _unique_id, _device_state,
                   _device_status, stream, removed, command>>

\* the stream ends or raises: the task finishes
_observe_status_ends ==
    /\ _observer_task = "running"
    /\ _observer_task' = "done"
    /\ UNCHANGED <<_available>>
    /\ UNCHANGED <<setup, _client, _model, _state, _unique_id, _device_state,
                   _device_status, stream, removed, command>>

\* PhilipsGenericFan.async_will_remove_from_hass: pass
async_will_remove_from_hass ==
    /\ setup_pc = "added"
    /\ _observer_task \in {"running", "done"}
    /\ removed' = TRUE
    /\ UNCHANGED <<setup, entity, stream, command>>

\* -------------------------------------------------------------- commands
\* `await self._client.set_control_value(key, value)`: the mutation is handed
\* to the client and the coroutine waits at `wait` for the outcome
set_control_value(key, value, wait) ==
    /\ sent' = Append(sent, <<key, value>>)
    /\ cmd_pc' = wait

\* the coroutine returns to the caller of the command
Return ==
    /\ cmd_pc' = "returned"
    /\ sent' = sent

\* an exception leaves the command
Propagate(e) ==
    /\ cmd_pc' = "raised"
    /\ exc' = e
    /\ sent' = sent

\* `self.is_on is False`: a state of None does not count as off
not_is_on_strict == is_on = PyFalse

\* `not self.is_on`
not_is_on == is_on # PyTrue

\* async_turn_off: one mutation, then back to whoever awaited it
async_turn_off(wait) == set_control_value(PHILIPS_POWER, "0", wait)

\* async_turn_on(speed=None), also as awaited by async_set_speed
async_turn_on_default(wait) == set_control_value(PHILIPS_POWER, "1", wait)

\* async_set_speed from `if speed == SPEED_1:` on
set_speed_tail(spd) ==
    IF spd = SPEED_1 THEN set_control_value(PHILIPS_SPEED, "1", "wait_final")
    ELSE IF spd = SPEED_2 THEN set_control_value(PHILIPS_SPEED, "2", "wait_final")
    ELSE IF spd = SPEED_MODE_AUTO THEN set_control_value(PHILIPS_MODE, "AG", "wait_final")
    ELSE IF spd = SPEED_MODE_SLEEP THEN set_control_value(PHILIPS_MODE, "S", "wait_final")
    ELSE IF spd = SPEED_MODE_TURBO THEN set_control_value(PHILIPS_MODE, "T", "wait_final")
    ELSE Return

\* async_set_speed up to its first await
async_set_speed(spd) ==
    IF spd = SPEED_OFF THEN async_turn_off("wait_final")
    ELSE IF not_is_on THEN async_turn_on_default("wait_power")
    ELSE set_speed_tail(spd)

\* async_turn_on up to its first await
async_turn_on(spd) ==
    IF spd = None THEN async_turn_on_default("wait_final")
    ELSE IF spd = SPEED_OFF THEN async_turn_off("wait_final")
    ELSE async_set_speed(spd)

\* a service call reaches the entity
BeginCall(op, spd) ==
    /\ setup_pc = "added"
    /\ cmd_pc = "idle"
    /\ call' = [op |-> op, speed |-> spd]
    /\ on_at_call' = is_on
    /\ UNCHANGED <<acked, exc, prev_outcome>>
    /\ UNCHANGED <<setup, entity, stream, removed>>

CallTurnOn ==
    \E spd \in SpeedArgs \cup {None} :
        BeginCall("async_turn_on", spd) /\ async_turn_on(spd)

CallTurnOff ==
    BeginCall("async_turn_off", None) /\ async_turn_off("wait_final")

CallSetSpeed ==
    \E spd \in SpeedArgs :
        BeginCall("async_set_speed", spd) /\ async_set_speed(spd)

\* async_set_speed that catches the failure of the power-on and goes on
set_speed_resume_swallowed(outcome) ==
    set_speed_tail(call.speed) /\ exc' = exc

\* async_set_speed resumes after `await self.async_turn_on()`
set_speed_resume(outcome) ==
    IF outcome = "ack"
    THEN set_speed_tail(call.speed) /\ exc' = exc
    ELSE Propagate(outcome)

\* a command resumes after its last set_control_value
command_resume(outcome) ==
    IF outcome = "ack"
    THEN Return /\ exc' = exc
    ELSE Propagate(outcome)

\* the client finishes the power-on mutation async_set_speed is waiting for
PowerOnCompletes ==
    /\ cmd_pc = "wait_power"
    /\ \E outcome \in ClientOutcomes :
          /\ acked' = IF outcome = "ack" THEN acked + 1 ELSE acked
          /\ set_speed_resume(outcome)
    /\ UNCHANGED <<call, on_at_call, prev_outcome>>
    /\ UNCHANGED <<setup, entity, stream, removed>>

\* the client finishes the last mutation of a command
FinalCompletes ==
    /\ cmd_pc = "wait_final"
    /\ \E outcome \in ClientOutcomes :
          /\ acked' = IF outcome = "ack" THEN acked + 1 ELSE acked
          /\ command_resume(outcome)
    /\ UNCHANGED <<call, on_at_call, prev_outcome>>
    /\ UNCHANGED <<setup, entity, stream, removed>>

\* the caller has the result (or the exception) of the command
CallerReceives ==
    /\ cmd_pc \in {"returned", "raised"}
    /\ prev_outcome' = cmd_pc
    /\ cmd_pc' = "idle"
    /\ call' = NoCall
    /\ sent' = <<>>
    /\ acked' = 0
    /\ on_at_call' = None
    /\ exc' = None
    /\ UNCHANGED <<setup, entity, stream, removed>>

Next ==
    \/ init_create
    \/ init_get_status
    \/ async_add_entities
    \/ async_added_to_hass
    \/ _observe_status
    \/ _observe_status_ends
    \/ async_will_remove_from_hass
    \/ CallTurnOn
    \/ CallTurnOff
    \/ CallSetSpeed
    \/ PowerOnCompletes
    \/ FinalCompletes
    \/ CallerReceives

Spec == Init /\ [][Next]_vars
\* ================================================================ claims
IsPrefix(p, q) == Len(p) <= Len(q) /\ \A i \in 1..Len(p) : p[i] = q[i]

InitSucceeded == setup_pc \in {"inited", "added"}

TaskStarted == _observer_task \in {"running", "done"}

\* C1: every failure of init() reaches the caller of async_setup_platform as
\* PlatformNotReady and as no other exception.
C1_InitFailureIsNotReady ==
    setup_pc = "failed" => raised = PlatformNotReady

\* C2: the device is handed to async_add_entities, and its observe task is
\* started, only after init() succeeded with a unique_id that is not None; if
\* init() raised, the device is not registered and no observe task exists.
C2_NoPartialInit ==
    /\ (setup_pc = "added" \/ TaskStarted) =>
          (status # Unset /\ unique_id # None /\ raised = None)
    /\ raised # None => (setup_pc = "failed" /\ ~TaskStarted)

C2_Witness ==
    setup_pc = "added" /\ _observer_task = "running" /\ unique_id = "AC4236-d2"

\* C3: after a successful init() and before the first observe notification
\* the cached status equals the status init() fetched, and reading it succeeds.
C3_InitialStatusCached ==
    (InitSucceeded /\ delivered = 0) =>
        (_device_status = status /\ speed # AttributeError)

\* C4: once async_will_remove_from_hass has been called, no snapshot changes
\* the entity any more.
C4_RemoveStopsObserve ==
    [][removed => UNCHANGED <<_available, _state, _device_status>>]_vars

\* C5: after the stream delivered s1..sk (k >= 1) the cached status is exactly
\* sk and is_on is (power of sk == "1"), in every state another coroutine or a
\* property read can see.
C5_CacheIsLatestSnapshot ==
    delivered >= 1 =>
        /\ _device_status = last_delivered
        /\ DOMAIN _device_status = DOMAIN last_delivered
        /\ is_on = PyTrue <=> (PHILIPS_POWER \in DOMAIN last_delivered
                               /\ last_delivered[PHILIPS_POWER] = "1")
        /\ is_on \in {PyTrue, PyFalse}

C5_Witness ==
    delivered >= 2 /\ last_delivered = S5 /\ _device_status = S5 /\ is_on = PyFalse

\* C6: no call of async_turn_on, async_turn_off or async_set_speed returns
\* normally without having sent a mutation to the client.
C6_NoSilentDrop ==
    cmd_pc = "returned" => Len(sent) >= 1

\* C7: a set_control_value that fails makes the command raise that failure;
\* the command sends nothing after it (no resend, no speed/mode mutation after
\* a failed power-on); commands never change available, is_on, the cached
\* status or unique_id; and the next command can be made afterwards.
C7_FailureInv ==
    /\ Len(sent) - acked \in {0, 1}
    /\ cmd_pc = "returned" => (acked = Len(sent) /\ exc = None)
    /\ cmd_pc = "raised" =>
          /\ exc \in ClientOutcomes \ {"ack"}
          /\ Len(sent) = acked + 1
          /\ \A i, j \in 1..Len(sent) : sent[i] = sent[j] => i = j
    /\ (cmd_pc = "raised" /\ call.op = "async_set_speed" /\ acked = 0) =>
          Len(sent) = 1
    /\ cmd_pc = "raised" => ENABLED CallerReceives
    /\ (cmd_pc = "idle" /\ prev_outcome = "raised" /\ setup_pc = "added") =>
          (ENABLED CallSetSpeed /\ ENABLED CallTurnOff)

C7_FailedCommandSurfaced ==
    /\ []C7_FailureInv
    /\ [][command' # command =>
             UNCHANGED <<_available, _state, _device_status, _unique_id>>]_vars

C7_Witness ==
    /\ prev_outcome = "raised"
    /\ cmd_pc = "raised"
    /\ call = [op |-> "async_set_speed", speed |-> SPEED_2]
    /\ sent = << <<PHILIPS_POWER, "1">> >>
    /\ exc = "CommandTimeout"
    /\ _available

\* C8: unique_id is None until init() succeeds, is then
\* "<model>-<device id of the first fetched status>", and no observe update or
\* command changes it afterwards.
C8_IdentityInv ==
    IF InitSucceeded
    THEN /\ status \in {S1, S2, S5} => unique_id = "AC4236-d1"
         /\ status = S3 => unique_id = "AC4236-d2"
         /\ status \in {S1, S2, S3, S5}
    ELSE unique_id = None

C8_IdentityImmutable ==
    /\ []C8_IdentityInv
    /\ [][unique_id # None => unique_id' = unique_id]_vars

C8_Witness ==
    /\ unique_id = "AC4236-d1"
    /\ delivered >= 1
    /\ last_delivered = S3
    /\ _device_status[PHILIPS_DEVICE_ID] = "d2"
    /\ prev_outcome = "returned"

\* C9: async_set_speed(speed), speed in SPEED_LIST: SPEED_OFF sends power="0"
\* only; any other speed sends power="1" first iff is_on was not true at the
\* call, then one speed/mode mutation, sent only after the power-on was
\* acknowledged.
SpeedModeMutation ==
    (SPEED_1 :> <<PHILIPS_SPEED, "1">>) @@
    (SPEED_2 :> <<PHILIPS_SPEED, "2">>) @@
    (SPEED_MODE_AUTO :> <<PHILIPS_MODE, "AG">>) @@
    (SPEED_MODE_SLEEP :> <<PHILIPS_MODE, "S">>) @@
    (SPEED_MODE_TURBO :> <<PHILIPS_MODE, "T">>)

ExpectedMutations(spd, on) ==
    IF spd = SPEED_OFF
    THEN << <<PHILIPS_POWER, "0">> >>
    ELSE IF on = PyTrue
         THEN << SpeedModeMutation[spd] >>
         ELSE << <<PHILIPS_POWER, "1">>, SpeedModeMutation[spd] >>

C9_SetSpeedSequence ==
    (call.op = "async_set_speed" /\ call.speed \in SpeedSet) =>
        LET expected == ExpectedMutations(call.speed, on_at_call)
        IN  /\ Len(sent) >= 1
            /\ IsPrefix(sent, expected)
            /\ cmd_pc = "returned" => sent = expected
            /\ cmd_pc = "wait_power" => (Len(sent) = 1 /\ Len(expected) = 2)
            /\ Len(sent) = 2 => acked >= 1

C9_Witness ==
    /\ delivered = 0
    /\ prev_outcome = "returned"
    /\ call = [op |-> "async_set_speed", speed |-> SPEED_MODE_TURBO]
    /\ on_at_call = None
    /\ cmd_pc = "returned"
    /\ sent = << <<PHILIPS_POWER, "1">>, <<PHILIPS_MODE, "T">> >>

\* C10: available is False until the first observe snapshot has been applied,
\* True from then on, and never goes back to False: not when the stream ends,
\* not when a command fails.
C10_AvailableMonotonic ==
    /\ [](available <=> delivered >= 1)
    /\ [][available => available']_vars

C10_Witness ==
    available /\ _observer_task = "done" /\ cmd_pc = "raised"
====
